---- MODULE Spec2Model ----
(***************************************************************************)
(* Model of the BabylonJS Shading Language facade (src/unnamed/part_001):  *)
(* every exported function allocates one or two node-material blocks, sets *)
(* their properties, wires the supplied output sockets to the inputs of    *)
(* the new blocks with connectTo, and returns a socket or the block.       *)
(*                                                                         *)
(* The graph is the state: the blocks allocated so far, the wires made by  *)
(* connectTo, and the history of facade calls with what each returned.     *)
(***************************************************************************)
EXTENDS Integers, Sequences, FiniteSets, TLC

VARIABLES
    nodes,  \* block id -> block record, ids 1..Len(nodes) in allocation order
    wires,  \* set of [from |-> output socket, to |-> input socket]
    calls,  \* sequence of facade calls: [fn, args, alloc, ret]
    hostError  \* the failure the host has reported: "none" or "build"

vars == <<nodes, wires, calls, hostError>>

\* ------------------------------------------------------------------ bounds

\* Blocks a behaviour may allocate in all.
MaxNodes == 3

\* Inputs of the callers.
Names == {"uv", "position"}
Values == {1, 2}
Vectors == {"Vector2(2,10)"}
Textures == {"CRATE_ALBEDO"}

\* ------------------------------------------------------------------ stages

\* export const Stage = { VERT, FRAG, VERT_AND_FRAG, NEUTRAL }
Stage ==
    [VERT |-> "Vertex", FRAG |-> "Fragment",
     VERT_AND_FRAG |-> "VertexAndFragment", NEUTRAL |-> "Neutral"]

Stages == {Stage.VERT, Stage.FRAG, Stage.VERT_AND_FRAG, Stage.NEUTRAL}

\* The target of a block the facade constructs and never assigns a target to:
\* whatever the host's constructor leaves there.
HostDefaultTarget == "HostDefault"

\* ----------------------------------------------------------------- sockets

\* A connection point: a named port of a block.
Sock(n, p) == [node |-> n, port |-> p]

\* null, for the optional socket parameters.
Null == Sock(0, "null")

\* What a function that returns the block itself (not one socket) returns.
BLOCK == "<block>"

\* The output sockets the facade and its documentation name on the blocks it
\* returns whole.
BlockOutputs(kind) ==
    CASE kind = "TextureBlock" -> {"rgb"}
      [] kind = "VectorMergerBlock" -> {"xyOut", "xyzOut", "xyzw"}
      [] kind = "VectorSplitterBlock" -> {"x", "y", "z", "xyOut"}
      [] OTHER -> {}

\* The sockets a caller holds: those returned by earlier calls, and the outputs
\* of the blocks returned by earlier calls.
Avail ==
    UNION { IF calls[i].ret.port = BLOCK
            THEN { Sock(calls[i].ret.node, p) :
                     p \in BlockOutputs(nodes[calls[i].ret.node].kind) }
            ELSE { calls[i].ret } : i \in DOMAIN calls }

\* Argument lists of n sockets: socket a everywhere but socket b at one place.
\* (All lists for n <= 2; for longer lists, every pair of parameters is told
\* apart by some list.)
ArgSeqs(n) ==
    { [i \in 1..n |-> IF i = p THEN b ELSE a] :
        a \in Avail, b \in Avail, p \in 1..n }

\* ------------------------------------------------------------------ blocks

\* new <Kind>(name), then the property assignments of the function.
Block(kind, name, target, props) ==
    [kind |-> kind, name |-> name, target |-> target, props |-> props]

NoProps == [none |-> TRUE]

\* A cache in place of `new`: the k-th block made so far is handed out again.
NewCached(k) == IF k <= Len(nodes) THEN k ELSE Len(nodes) + k

\* The identity of the k-th block constructed by the running call: `new` yields
\* an object distinct from every existing one.
New(k) == Len(nodes) + k

\* output.connectTo(input)
Wire(from, to) == [from |-> from, to |-> to]

\* What a function does: the blocks it allocates, the wires it makes, what it
\* returns.
Fx(new, w, ret) == [new |-> new, wires |-> w, ret |-> ret]

\* ----------------------------------------------------------------- sources

uniformCameraPosition ==
    Fx(New(1) :> Block("InputBlock", "cameraPosition", "VertexAndFragment",
                       [systemValue |-> "CameraPosition"]),
       {}, Sock(New(1), "output"))

uniformView ==
    Fx(New(1) :> Block("InputBlock", "view", "VertexAndFragment",
                       [systemValue |-> "View"]),
       {}, Sock(New(1), "output"))

uniformViewProjection ==
    Fx(New(1) :> Block("InputBlock", "ViewProjection", "VertexAndFragment",
                       [systemValue |-> "ViewProjection"]),
       {}, Sock(New(1), "output"))

uniformWorld ==
    Fx(New(1) :> Block("InputBlock", "world", "VertexAndFragment",
                       [systemValue |-> "World"]),
       {}, Sock(New(1), "output"))

vertexAttribute(name) ==
    Fx(New(1) :> Block("InputBlock", name, "Vertex", [attribute |-> name]),
       {}, Sock(New(1), "output"))

float(value) ==
    Fx(New(1) :> Block("InputBlock", "float", Stage.VERT_AND_FRAG,
                       [value |-> value]),
       {}, Sock(New(1), "output"))

constFloat(name, value) ==
    Fx(New(1) :> Block("InputBlock", name, Stage.VERT_AND_FRAG,
                       [value |-> value, isConstant |-> TRUE]),
       {}, Sock(New(1), "output"))

uniformFloat(name, value) ==
    Fx(New(1) :> Block("InputBlock", name, Stage.VERT_AND_FRAG,
                       [value |-> value, matrixMode |-> 0]),
       {}, Sock(New(1), "output"))

vecFromBabylon(vec) ==
    Fx(New(1) :> Block("InputBlock", "Mesh UV scale factor", HostDefaultTarget,
                       [isConstant |-> TRUE, vector |-> vec]),
       {}, Sock(New(1), "output"))

\* --------------------------------------------------------- options records

\* An optional options record: omitted (given = FALSE), or a record holding
\* some of the fields, each a boolean.
Omitted == [given |-> FALSE, rec |-> <<>>]

OptionsOver(fields) ==
    {Omitted} \cup
    { [given |-> TRUE, rec |-> r] :
        r \in UNION { [S -> BOOLEAN] : S \in SUBSET fields } }

TextureBlockProps ==
    {"convertToLinearSpace", "convertToGammaSpace", "disableLevelMultiplication"}

OutputFragColorProps == {"convertToLinearSpace", "convertToGammaSpace"}

\* props?.field ?? false
OrFalse(props, field) ==
    IF props.given /\ field \in DOMAIN props.rec THEN props.rec[field] ELSE FALSE

\* ---------------------------------------------------------------- sampling

\* sampleTexture with the two colour-space options read from each other's field.
sampleTextureSwapped(texture, uv, props) ==
    Fx(New(1) :> Block("TextureBlock", "texture", "VertexAndFragment",
         [convertToGammaSpace |-> OrFalse(props, "convertToLinearSpace"),
          convertToLinearSpace |-> OrFalse(props, "convertToGammaSpace"),
          disableLevelMultiplication |->
              OrFalse(props, "disableLevelMultiplication"),
          texture |-> texture]),
       {Wire(uv, Sock(New(1), "uv"))},
       Sock(New(1), BLOCK))

sampleTexture(texture, uv, props) ==
    Fx(New(1) :> Block("TextureBlock", "texture", "VertexAndFragment",
         [convertToGammaSpace |-> OrFalse(props, "convertToGammaSpace"),
          convertToLinearSpace |-> OrFalse(props, "convertToLinearSpace"),
          disableLevelMultiplication |->
              OrFalse(props, "disableLevelMultiplication"),
          texture |-> texture]),
       {Wire(uv, Sock(New(1), "uv"))},
       Sock(New(1), BLOCK))

\* -------------------------------------------------------------- transforms

transformPosition(transformMat4, positionVec3, stage) ==
    Fx(New(1) :> Block("TransformBlock", "TransformPosition", stage,
                       [complementZ |-> 0, complementW |-> 1]),
       {Wire(positionVec3, Sock(New(1), "vector")),
        Wire(transformMat4, Sock(New(1), "transform"))},
       Sock(New(1), "output"))

\* transformDirection left with the w-complement of transformPosition.
transformDirectionAffine(transformMat4, directionVec3, stage) ==
    Fx(New(1) :> Block("TransformBlock", "TransformDirection", stage,
                       [complementZ |-> 0, complementW |-> 1]),
       {Wire(directionVec3, Sock(New(1), "vector")),
        Wire(transformMat4, Sock(New(1), "transform"))},
       Sock(New(1), "output"))

transformDirection(transformMat4, directionVec3, stage) ==
    Fx(New(1) :> Block("TransformBlock", "TransformDirection", stage,
                       [complementZ |-> 0, complementW |-> 0]),
       {Wire(directionVec3, Sock(New(1), "vector")),
        Wire(transformMat4, Sock(New(1), "transform"))},
       Sock(New(1), "output"))

\* -------------------------------------------------------------- arithmetic

fract(input, stage) ==
    Fx(New(1) :> Block("TrigonometryBlock", "fract", stage,
                       [operation |-> "Fract"]),
       {Wire(input, Sock(New(1), "input"))},
       Sock(New(1), "output"))

\* mul refusing a factor that is not the output of a float source.
mulChecksFactor(input, factor, stage) ==
    IF /\ nodes[factor.node].kind = "InputBlock"
       /\ "value" \in DOMAIN nodes[factor.node].props
    THEN Fx(New(1) :> Block("ScaleBlock", "Position to UV scale", stage, NoProps),
            {Wire(input, Sock(New(1), "input")),
             Wire(factor, Sock(New(1), "factor"))},
            Sock(New(1), "output"))
    ELSE Fx(<<>>, {}, Null)

mul(input, factor, stage) ==
    Fx(New(1) :> Block("ScaleBlock", "Position to UV scale", stage, NoProps),
       {Wire(input, Sock(New(1), "input")),
        Wire(factor, Sock(New(1), "factor"))},
       Sock(New(1), "output"))

mulVec(left, right, stage) ==
    Fx(New(1) :> Block("MultiplyBlock", "scaledMeshUV", stage, NoProps),
       {Wire(left, Sock(New(1), "left")),
        Wire(right, Sock(New(1), "right"))},
       Sock(New(1), "output"))

\* ------------------------------------------------- assembly and disassembly

\* merge with x and y wired crosswise.
mergeCrossed(x, y, z, w, stage) ==
    Fx(New(1) :> Block("VectorMergerBlock", "Merge", stage, NoProps),
       {Wire(x, Sock(New(1), "y")), Wire(y, Sock(New(1), "x"))}
         \cup (IF z # Null THEN {Wire(z, Sock(New(1), "z"))} ELSE {})
         \cup (IF w # Null THEN {Wire(w, Sock(New(1), "w"))} ELSE {}),
       Sock(New(1), BLOCK))

\* merge with the test of w nested in the test of z.
mergeNested(x, y, z, w, stage) ==
    Fx(New(1) :> Block("VectorMergerBlock", "Merge", stage, NoProps),
       {Wire(x, Sock(New(1), "x")), Wire(y, Sock(New(1), "y"))}
         \cup (IF z # Null
               THEN {Wire(z, Sock(New(1), "z"))}
                      \cup (IF w # Null THEN {Wire(w, Sock(New(1), "w"))} ELSE {})
               ELSE {}),
       Sock(New(1), BLOCK))

merge(x, y, z, w, stage) ==
    Fx(New(1) :> Block("VectorMergerBlock", "Merge", stage, NoProps),
       {Wire(x, Sock(New(1), "x")), Wire(y, Sock(New(1), "y"))}
         \cup (IF z # Null THEN {Wire(z, Sock(New(1), "z"))} ELSE {})
         \cup (IF w # Null THEN {Wire(w, Sock(New(1), "w"))} ELSE {}),
       Sock(New(1), BLOCK))

\* merge(...).<out>: the named output socket of the block a function returned.
OutputOf(fx, out) == [fx EXCEPT !.ret = Sock(fx.ret.node, out)]

vec2(x, y, stage) == OutputOf(merge(x, y, Null, Null, stage), "xyOut")

vec3(x, y, z, stage) == OutputOf(merge(x, y, z, Null, stage), "xyzOut")

vec4(x, y, z, w, stage) == OutputOf(merge(x, y, z, w, stage), "xyzw")

splitVec2(inputVec2, stage) ==
    Fx(New(1) :> Block("VectorSplitterBlock", "splitVec2", stage, NoProps),
       {Wire(inputVec2, Sock(New(1), "xyIn"))},
       Sock(New(1), BLOCK))

splitVec3(inputVec3, stage) ==
    Fx(New(1) :> Block("VectorSplitterBlock", "splitVec3", stage, NoProps),
       {Wire(inputVec3, Sock(New(1), "xyzIn"))},
       Sock(New(1), BLOCK))

\* xy splitting its argument as a vec2.
xyViaSplitVec2(inputVec3, stage) == OutputOf(splitVec2(inputVec3, stage), "xyOut")

xy(inputVec3, stage) == OutputOf(splitVec3(inputVec3, stage), "xyOut")

\* xz with its first connection made the wrong way round, from the merger's
\* output back to the splitter's input.
xzBackwards(inputVec3, stage) ==
    LET inputSplitted == splitVec3(inputVec3, stage)
        split == inputSplitted.ret.node
        outputXZ == New(2)
    IN  Fx(inputSplitted.new @@
             outputXZ :> Block("VectorMergerBlock", "OutputXZ", stage, NoProps),
           inputSplitted.wires \cup
             {Wire(Sock(outputXZ, "xyOut"), Sock(split, "xyIn")),
              Wire(Sock(split, "z"), Sock(outputXZ, "y"))},
           Sock(outputXZ, "xyOut"))

\* xz selecting the splitter's y where z is meant.
xzSelectsY(inputVec3, stage) ==
    LET inputSplitted == splitVec3(inputVec3, stage)
        split == inputSplitted.ret.node
        outputXZ == New(2)
    IN  Fx(inputSplitted.new @@
             outputXZ :> Block("VectorMergerBlock", "OutputXZ", stage, NoProps),
           inputSplitted.wires \cup
             {Wire(Sock(split, "x"), Sock(outputXZ, "x")),
              Wire(Sock(split, "y"), Sock(outputXZ, "y"))},
           Sock(outputXZ, "xyOut"))

\* xz without the assignment of the merger's target.
xzNoTarget(inputVec3, stage) ==
    LET inputSplitted == splitVec3(inputVec3, stage)
        split == inputSplitted.ret.node
        outputXZ == New(2)
    IN  Fx(inputSplitted.new @@
             outputXZ :> Block("VectorMergerBlock", "OutputXZ", HostDefaultTarget,
                               NoProps),
           inputSplitted.wires \cup
             {Wire(Sock(split, "x"), Sock(outputXZ, "x")),
              Wire(Sock(split, "z"), Sock(outputXZ, "y"))},
           Sock(outputXZ, "xyOut"))

xz(inputVec3, stage) ==
    LET inputSplitted == splitVec3(inputVec3, stage)
        split == inputSplitted.ret.node
        outputXZ == New(2)
    IN  Fx(inputSplitted.new @@
             outputXZ :> Block("VectorMergerBlock", "OutputXZ", stage, NoProps),
           inputSplitted.wires \cup
             {Wire(Sock(split, "x"), Sock(outputXZ, "x")),
              Wire(Sock(split, "z"), Sock(outputXZ, "y"))},
           Sock(outputXZ, "xyOut"))

\* ---------------------------------------------------------------- lighting

\* perturbNormal with the world normal wired to the world-position input as well.
perturbNormalTwice(uv, positionWorldVec3, normalWorldVec3, normalTexture, bumpStrengthFloat) ==
    Fx(New(1) :> Block("PerturbNormalBlock", "Perturb normal", "Fragment",
                       NoProps),
       {Wire(uv, Sock(New(1), "uv")),
        Wire(positionWorldVec3, Sock(New(1), "worldPosition")),
        Wire(normalWorldVec3, Sock(New(1), "worldPosition")),
        Wire(normalWorldVec3, Sock(New(1), "worldNormal")),
        Wire(normalTexture, Sock(New(1), "normalMapColor")),
        Wire(bumpStrengthFloat, Sock(New(1), "strength"))},
       Sock(New(1), "output"))

perturbNormal(uv, positionWorldVec3, normalWorldVec3, normalTexture, bumpStrengthFloat) ==
    Fx(New(1) :> Block("PerturbNormalBlock", "Perturb normal", "Fragment",
                       NoProps),
       {Wire(uv, Sock(New(1), "uv")),
        Wire(positionWorldVec3, Sock(New(1), "worldPosition")),
        Wire(normalWorldVec3, Sock(New(1), "worldNormal")),
        Wire(normalTexture, Sock(New(1), "normalMapColor")),
        Wire(bumpStrengthFloat, Sock(New(1), "strength"))},
       Sock(New(1), "output"))

\* The material with the metallic and roughness arguments wired crosswise.
pbrMetallicRoughnessCrossed(albedoRgb, metallicFloat, roughnessFloat, ambientOcclusionFloat, perturbedNormalVec3, normalWorldVec3, viewMat4, cameraPositionVec3, positionWorldVec3) ==
    Fx(New(1) :> Block("PBRMetallicRoughnessBlock", "PBRMetallicRoughness",
                       "Fragment",
                       [useEnergyConservation |-> TRUE,
                        useRadianceOcclusion |-> TRUE,
                        useHorizonOcclusion |-> TRUE]),
       {Wire(albedoRgb, Sock(New(1), "baseColor")),
        Wire(metallicFloat, Sock(New(1), "roughness")),
        Wire(roughnessFloat, Sock(New(1), "metallic"))}
         \cup (IF ambientOcclusionFloat # Null
               THEN {Wire(ambientOcclusionFloat, Sock(New(1), "ambientOcc"))}
               ELSE {})
         \cup {Wire(perturbedNormalVec3, Sock(New(1), "perturbedNormal")),
               Wire(normalWorldVec3, Sock(New(1), "worldNormal")),
               Wire(viewMat4, Sock(New(1), "view")),
               Wire(cameraPositionVec3, Sock(New(1), "cameraPosition")),
               Wire(positionWorldVec3, Sock(New(1), "worldPosition"))},
       Sock(New(1), "lighting"))

pbrMetallicRoughnessMaterial(albedoRgb, metallicFloat, roughnessFloat, ambientOcclusionFloat, perturbedNormalVec3, normalWorldVec3, viewMat4, cameraPositionVec3, positionWorldVec3) ==
    Fx(New(1) :> Block("PBRMetallicRoughnessBlock", "PBRMetallicRoughness",
                       "Fragment",
                       [useEnergyConservation |-> TRUE,
                        useRadianceOcclusion |-> TRUE,
                        useHorizonOcclusion |-> TRUE]),
       {Wire(albedoRgb, Sock(New(1), "baseColor")),
        Wire(metallicFloat, Sock(New(1), "metallic")),
        Wire(roughnessFloat, Sock(New(1), "roughness"))}
         \cup (IF ambientOcclusionFloat # Null
               THEN {Wire(ambientOcclusionFloat, Sock(New(1), "ambientOcc"))}
               ELSE {})
         \cup {Wire(perturbedNormalVec3, Sock(New(1), "perturbedNormal")),
               Wire(normalWorldVec3, Sock(New(1), "worldNormal")),
               Wire(viewMat4, Sock(New(1), "view")),
               Wire(cameraPositionVec3, Sock(New(1), "cameraPosition")),
               Wire(positionWorldVec3, Sock(New(1), "worldPosition"))},
       Sock(New(1), "lighting"))

\* ------------------------------------------------------------------- sinks

\* outputFragColor with gamma conversion on unless it is switched off.
outputFragColorGammaOn(colorRgb, props) ==
    Fx(New(1) :> Block("FragmentOutputBlock", "FragmentOutput", "Fragment",
         [convertToGammaSpace |->
              (IF props.given /\ "convertToGammaSpace" \in DOMAIN props.rec
               THEN props.rec["convertToGammaSpace"] ELSE TRUE),
          convertToLinearSpace |-> OrFalse(props, "convertToLinearSpace")]),
       {Wire(colorRgb, Sock(New(1), "rgb"))},
       Sock(New(1), BLOCK))

outputFragColor(colorRgb, props) ==
    Fx(New(1) :> Block("FragmentOutputBlock", "FragmentOutput", "Fragment",
         [convertToGammaSpace |-> OrFalse(props, "convertToGammaSpace"),
          convertToLinearSpace |-> OrFalse(props, "convertToLinearSpace")]),
       {Wire(colorRgb, Sock(New(1), "rgb"))},
       Sock(New(1), BLOCK))

outputVertexPosition(positionVec4) ==
    Fx(New(1) :> Block("VertexOutputBlock", "VertexOutput", "Vertex", NoProps),
       {Wire(positionVec4, Sock(New(1), "vector"))},
       Sock(New(1), BLOCK))

\* ------------------------------------------------------------------- calls

\* One facade call: its blocks join the graph, its wires are added, and the
\* call is recorded with what it returned.
Call(fn, args, fx) ==
    /\ nodes' = [i \in (DOMAIN nodes) \cup (DOMAIN fx.new) |->
                   IF i \in DOMAIN fx.new THEN fx.new[i] ELSE nodes[i]]
    /\ wires' = wires \cup fx.wires
    /\ calls' = Append(calls, [fn |-> fn, args |-> args,
                               alloc |-> DOMAIN fx.new, ret |-> fx.ret])
    /\ hostError' = hostError

\* The callers stop once the graph holds MaxNodes blocks: a call is made
\* only when the k blocks it allocates still fit.
RoomFor(k) == Len(nodes) + k <= MaxNodes

DoUniformCameraPosition ==
    /\ RoomFor(1)
    /\ Call("uniformCameraPosition", NoProps, uniformCameraPosition)

DoUniformView ==
    /\ RoomFor(1)
    /\ Call("uniformView", NoProps, uniformView)

DoUniformViewProjection ==
    /\ RoomFor(1)
    /\ Call("uniformViewProjection", NoProps, uniformViewProjection)

DoUniformWorld ==
    /\ RoomFor(1)
    /\ Call("uniformWorld", NoProps, uniformWorld)

DoVertexAttribute ==
    /\ RoomFor(1)
    /\ \E name \in Names :
           Call("vertexAttribute", [name |-> name], vertexAttribute(name))

DoFloat ==
    /\ RoomFor(1)
    /\ \E v \in Values : Call("float", [value |-> v], float(v))

DoConstFloat ==
    /\ RoomFor(1)
    /\ \E name \in Names, v \in Values :
           Call("constFloat", [name |-> name, value |-> v], constFloat(name, v))

DoUniformFloat ==
    /\ RoomFor(1)
    /\ \E name \in Names, v \in Values :
           Call("uniformFloat", [name |-> name, value |-> v], uniformFloat(name, v))

DoVecFromBabylon ==
    /\ RoomFor(1)
    /\ \E vec \in Vectors :
           Call("vecFromBabylon", [vec |-> vec], vecFromBabylon(vec))

DoSampleTexture ==
    /\ RoomFor(1)
    /\ \E texture \in Textures, a \in ArgSeqs(1),
          props \in OptionsOver(TextureBlockProps) :
           Call("sampleTexture", [texture |-> texture, uv |-> a[1], props |-> props],
                sampleTexture(texture, a[1], props))

DoTransformPosition ==
    /\ RoomFor(1)
    /\ \E a \in ArgSeqs(2), stage \in Stages :
           Call("transformPosition",
                [transformMat4 |-> a[1], vector |-> a[2], stage |-> stage],
                transformPosition(a[1], a[2], stage))

DoTransformDirection ==
    /\ RoomFor(1)
    /\ \E a \in ArgSeqs(2), stage \in Stages :
           Call("transformDirection",
                [transformMat4 |-> a[1], vector |-> a[2], stage |-> stage],
                transformDirection(a[1], a[2], stage))

DoFract ==
    /\ RoomFor(1)
    /\ \E a \in ArgSeqs(1), stage \in Stages :
           Call("fract", [input |-> a[1], stage |-> stage], fract(a[1], stage))

DoMul ==
    /\ RoomFor(1)
    /\ \E a \in ArgSeqs(2), stage \in Stages :
           Call("mul", [input |-> a[1], factor |-> a[2], stage |-> stage],
                mul(a[1], a[2], stage))

DoMulVec ==
    /\ RoomFor(1)
    /\ \E a \in ArgSeqs(2), stage \in Stages :
           Call("mulVec", [left |-> a[1], right |-> a[2], stage |-> stage],
                mulVec(a[1], a[2], stage))

DoMerge ==
    /\ RoomFor(1)
    /\ \E a \in ArgSeqs(4), zNull \in BOOLEAN, wNull \in BOOLEAN, stage \in Stages :
           LET z == IF zNull THEN Null ELSE a[3]
               w == IF wNull THEN Null ELSE a[4]
           IN  Call("merge",
                    [x |-> a[1], y |-> a[2], z |-> z, w |-> w, stage |-> stage],
                    merge(a[1], a[2], z, w, stage))

DoVec2 ==
    /\ RoomFor(1)
    /\ \E a \in ArgSeqs(2), stage \in Stages :
           Call("vec2", [x |-> a[1], y |-> a[2], stage |-> stage],
                vec2(a[1], a[2], stage))

DoVec3 ==
    /\ RoomFor(1)
    /\ \E a \in ArgSeqs(3), stage \in Stages :
           Call("vec3", [x |-> a[1], y |-> a[2], z |-> a[3], stage |-> stage],
                vec3(a[1], a[2], a[3], stage))

DoVec4 ==
    /\ RoomFor(1)
    /\ \E a \in ArgSeqs(4), stage \in Stages :
           Call("vec4",
                [x |-> a[1], y |-> a[2], z |-> a[3], w |-> a[4], stage |-> stage],
                vec4(a[1], a[2], a[3], a[4], stage))

DoSplitVec2 ==
    /\ RoomFor(1)
    /\ \E a \in ArgSeqs(1), stage \in Stages :
           Call("splitVec2", [input |-> a[1], stage |-> stage],
                splitVec2(a[1], stage))

DoSplitVec3 ==
    /\ RoomFor(1)
    /\ \E a \in ArgSeqs(1), stage \in Stages :
           Call("splitVec3", [input |-> a[1], stage |-> stage],
                splitVec3(a[1], stage))

DoXy ==
    /\ RoomFor(1)
    /\ \E a \in ArgSeqs(1), stage \in Stages :
           Call("xy", [input |-> a[1], stage |-> stage], xy(a[1], stage))

DoXz ==
    /\ RoomFor(2)
    /\ \E a \in ArgSeqs(1), stage \in Stages :
           Call("xz", [input |-> a[1], stage |-> stage], xz(a[1], stage))

DoPerturbNormal ==
    /\ RoomFor(1)
    /\ \E a \in ArgSeqs(5) :
           Call("perturbNormal",
                [uv |-> a[1], positionWorldVec3 |-> a[2], normalWorldVec3 |-> a[3],
                 normalTexture |-> a[4], bumpStrengthFloat |-> a[5]],
                perturbNormal(a[1], a[2], a[3], a[4], a[5]))

DoPbrMetallicRoughnessMaterial ==
    /\ RoomFor(1)
    /\ \E a \in ArgSeqs(9), aoNull \in BOOLEAN :
           LET ao == IF aoNull THEN Null ELSE a[4]
           IN  Call("pbrMetallicRoughnessMaterial",
                    [albedoRgb |-> a[1], metallicFloat |-> a[2],
                     roughnessFloat |-> a[3], ambientOcclusionFloat |-> ao,
                     perturbedNormalVec3 |-> a[5], normalWorldVec3 |-> a[6],
                     viewMat4 |-> a[7], cameraPositionVec3 |-> a[8],
                     positionWorldVec3 |-> a[9]],
                    pbrMetallicRoughnessMaterial(a[1], a[2], a[3], ao, a[5], a[6],
                                                 a[7], a[8], a[9]))

DoOutputFragColor ==
    /\ RoomFor(1)
    /\ \E a \in ArgSeqs(1), props \in OptionsOver(OutputFragColorProps) :
           Call("outputFragColor", [colorRgb |-> a[1], props |-> props],
                outputFragColor(a[1], props))

DoOutputVertexPosition ==
    /\ RoomFor(1)
    /\ \E a \in ArgSeqs(1) :
           Call("outputVertexPosition", [positionVec4 |-> a[1]],
                outputVertexPosition(a[1]))

\* ------------------------------------------------------------ specification

Init ==
    /\ nodes = <<>>
    /\ wires = {}
    /\ calls = <<>>
    /\ hostError = "none"

Next ==
    \/ DoUniformCameraPosition
    \/ DoUniformView
    \/ DoUniformViewProjection
    \/ DoUniformWorld
    \/ DoVertexAttribute
    \/ DoFloat
    \/ DoConstFloat
    \/ DoUniformFloat
    \/ DoVecFromBabylon
    \/ DoSampleTexture
    \/ DoTransformPosition
    \/ DoTransformDirection
    \/ DoFract
    \/ DoMul
    \/ DoMulVec
    \/ DoMerge
    \/ DoVec2
    \/ DoVec3
    \/ DoVec4
    \/ DoSplitVec2
    \/ DoSplitVec3
    \/ DoXy
    \/ DoXz
    \/ DoPerturbNormal
    \/ DoPbrMetallicRoughnessMaterial
    \/ DoOutputFragColor
    \/ DoOutputVertexPosition

Spec == Init /\ [][Next]_vars

\* --------------------------------------------------------------- host build

\* An output that carries a 4x4 matrix: the view, view-projection and world
\* uniforms.
IsMatrix(s) ==
    /\ s.node \in DOMAIN nodes
    /\ nodes[s.node].kind = "InputBlock"
    /\ "systemValue" \in DOMAIN nodes[s.node].props
    /\ nodes[s.node].props.systemValue \in {"View", "ViewProjection", "World"}

\* A wire into a matrix input (transformMat4, viewMat4) from an output that
\* carries no matrix.
TypeMismatched(w) == w.to.port \in {"transform", "view"} /\ ~IsMatrix(w.from)

\* A wire from a fragment-stage block into a vertex-stage block.
StageIncompatible(w) ==
    /\ nodes[w.from.node].target = "Fragment"
    /\ nodes[w.to.node].target = "Vertex"

GraphMalformed ==
    \E w \in wires : TypeMismatched(w) \/ StageIncompatible(w)

\* The caller has the host build the graph: a malformed graph is reported
\* then. (A well-formed graph builds and nothing changes.)
HostBuild ==
    /\ hostError = "none"
    /\ GraphMalformed
    /\ hostError' = "build"
    /\ UNCHANGED <<nodes, wires, calls>>

NextBuild ==
    \/ Next
    \/ HostBuild

SpecBuild == Init /\ [][NextBuild]_vars

\* --------------------------------------------------------------- round trip

\* The scalars of the round trip.
RoundTripValues == {1, 2, 3}

\* The round trip vec3(float(a), float(b), float(c), stage) followed by
\* splitVec3 of its output: three float calls, then vec3 on what they
\* returned, in order, then splitVec3 on what vec3 returned.
RtFloat ==
    /\ Len(calls) < 3
    /\ \E v \in RoundTripValues : Call("float", [value |-> v], float(v))

RtVec3 ==
    /\ Len(calls) = 3
    /\ \E stage \in Stages :
           Call("vec3",
                [x |-> calls[1].ret, y |-> calls[2].ret, z |-> calls[3].ret,
                 stage |-> stage],
                vec3(calls[1].ret, calls[2].ret, calls[3].ret, stage))

RtSplitVec3 ==
    /\ Len(calls) = 4
    /\ \E stage \in Stages :
           Call("splitVec3", [input |-> calls[4].ret, stage |-> stage],
                splitVec3(calls[4].ret, stage))

NextRoundTrip ==
    \/ RtFloat
    \/ RtVec3
    \/ RtSplitVec3

SpecRoundTrip == Init /\ [][NextRoundTrip]_vars

\* The value on an output socket when the graph is evaluated: an input block
\* yields its value, a merger the vector of the values on its component inputs
\* (0 for an unwired one), a splitter the component of the vector on its xyz
\* input or, of the first two components, on its xy input.
RECURSIVE Eval(_)
Eval(s) ==
    LET n == nodes[s.node]
        from(p) == { w.from : w \in { v \in wires : v.to = Sock(s.node, p) } }
        on(p) == IF from(p) = {} THEN 0 ELSE Eval(CHOOSE f \in from(p) : TRUE)
        component == CASE s.port = "x" -> 1 [] s.port = "y" -> 2
                       [] s.port = "z" -> 3 [] OTHER -> 4
    IN  CASE n.kind = "InputBlock" -> n.props.value
          [] n.kind = "VectorMergerBlock" /\ s.port = "xyOut" ->
               <<on("x"), on("y")>>
          [] n.kind = "VectorMergerBlock" /\ s.port = "xyzOut" ->
               <<on("x"), on("y"), on("z")>>
          [] n.kind = "VectorMergerBlock" /\ s.port = "xyzw" ->
               <<on("x"), on("y"), on("z"), on("w")>>
          [] n.kind = "VectorSplitterBlock" /\ from("xyzIn") # {} ->
               on("xyzIn")[component]
          [] n.kind = "VectorSplitterBlock" /\ from("xyIn") # {}
               /\ component <= 2 ->
               on("xyIn")[component]
          [] OTHER -> 0

\* ------------------------------------------------------------------ claims

\* The output sockets wired to input p of block n.
In(n, p) == { w.from : w \in { v \in wires : v.to = Sock(n, p) } }

\* The input ports of block n that have a wire.
WiredInputs(n) == { w.to.port : w \in { v \in wires : v.to.node = n } }

\* What an optional socket argument wires: nothing when it is null.
IfGiven(s) == IF s = Null THEN {} ELSE {s}

\* C1: merge, vec2, vec3 and vec4 always wire the merger's x and y inputs from
\* the supplied x and y; the z input is wired from z exactly when z is not
\* null, and the w input from w exactly when w is not null, each independently
\* of the other (vec2 passes null for both, vec3 for w only, vec4 for neither).
C1_MergeWiresOptionalInputs ==
    \A i \in DOMAIN calls :
        LET c == calls[i]
            m == c.ret.node
            z == CASE c.fn = "vec2" -> Null [] OTHER -> c.args.z
            w == CASE c.fn \in {"vec2", "vec3"} -> Null [] OTHER -> c.args.w
        IN  c.fn \in {"merge", "vec2", "vec3", "vec4"} =>
              /\ nodes[m].kind = "VectorMergerBlock"
              /\ In(m, "x") = {c.args.x}
              /\ In(m, "y") = {c.args.y}
              /\ In(m, "z") = IfGiven(z)
              /\ In(m, "w") = IfGiven(w)
              /\ c.fn = "vec3" => z # Null
              /\ c.fn = "vec4" => z # Null /\ w # Null

\* A merge with z null and w supplied (and x, y told apart) has happened: the
\* merger has its w input wired and its z input not.
C1_Witness ==
    \E i \in DOMAIN calls :
        /\ calls[i].fn = "merge"
        /\ calls[i].args.z = Null
        /\ calls[i].args.w # Null
        /\ calls[i].args.x # calls[i].args.y
        /\ WiredInputs(calls[i].ret.node) = {"x", "y", "w"}

\* C2: each option field of the block made by sampleTexture or outputFragColor
\* equals the value supplied for that field, and is false when the field or the
\* whole options record is omitted; no field takes the value of another.
C2_OptionsDefaultToFalse ==
    \A i \in DOMAIN calls :
        LET c == calls[i]
            blk == nodes[c.ret.node]
            fields == CASE c.fn = "sampleTexture" -> TextureBlockProps
                        [] c.fn = "outputFragColor" -> OutputFragColorProps
                        [] OTHER -> {}
        IN  \A f \in fields :
              LET supplied == c.args.props.given /\ f \in DOMAIN c.args.props.rec
              IN  /\ supplied => blk.props[f] = c.args.props.rec[f]
                  /\ ~supplied => blk.props[f] = FALSE

\* The Readme's call has happened: sampleTexture with only convertToLinearSpace
\* supplied, as true; the block has it true and the other two false.
C2_Witness ==
    \E i \in DOMAIN calls :
        /\ calls[i].fn = "sampleTexture"
        /\ calls[i].args.props.given
        /\ DOMAIN calls[i].args.props.rec = {"convertToLinearSpace"}
        /\ calls[i].args.props.rec["convertToLinearSpace"]
        /\ nodes[calls[i].ret.node].props.convertToLinearSpace
        /\ ~nodes[calls[i].ret.node].props.convertToGammaSpace
        /\ ~nodes[calls[i].ret.node].props.disableLevelMultiplication

\* C3: xz(v, stage) splits v and selects x and z: a fresh splitter has v on
\* its xyz input (and no other input), its x output goes to a fresh merger's x
\* input and its z output to the merger's y input, the merger's xy output is
\* returned, nothing is wired from the splitter's y output, and the merger's z
\* and w inputs stay unwired.
C3_XzSplitsAndSelectsXZ ==
    \A i \in DOMAIN calls :
        calls[i].fn = "xz" =>
          \E s \in calls[i].alloc, m \in calls[i].alloc :
            /\ s # m
            /\ calls[i].alloc = {s, m}
            /\ nodes[s].kind = "VectorSplitterBlock"
            /\ nodes[m].kind = "VectorMergerBlock"
            /\ In(s, "xyzIn") = {calls[i].args.input}
            /\ WiredInputs(s) = {"xyzIn"}
            /\ In(m, "x") = {Sock(s, "x")}
            /\ In(m, "y") = {Sock(s, "z")}
            /\ WiredInputs(m) = {"x", "y"}
            /\ calls[i].ret = Sock(m, "xyOut")
            /\ \A w \in wires : w.from # Sock(s, "y")
            /\ \A w \in wires : w.from.node = s => w.to.node = m

\* xz has been called on the output of an earlier block.
C3_Witness ==
    \E i \in DOMAIN calls :
        /\ calls[i].fn = "xz"
        /\ calls[i].args.input.node \in DOMAIN nodes
        /\ Cardinality(calls[i].alloc) = 2
        /\ \E w \in wires : w.from.port = "z" /\ w.to.port = "y"

\* C4: every call allocates its own blocks: no block is allocated by two calls
\* (also not by two calls of one function with the same arguments), every call
\* allocates at least one, and what a call returns is, or is a socket of, a
\* block that call allocated.
C4_NodesAreFresh ==
    /\ \A i \in DOMAIN calls, j \in DOMAIN calls :
         i # j => calls[i].alloc \cap calls[j].alloc = {}
    /\ \A i \in DOMAIN calls :
         /\ calls[i].alloc # {}
         /\ calls[i].alloc \subseteq DOMAIN nodes
         /\ calls[i].ret.node \in calls[i].alloc
    /\ Cardinality(UNION { calls[i].alloc : i \in DOMAIN calls }) = Len(nodes)

\* The same function has been called twice with the same arguments, and the two
\* calls returned different blocks.
C4_Witness ==
    \E i \in DOMAIN calls, j \in DOMAIN calls :
        /\ i # j
        /\ calls[i].fn = calls[j].fn
        /\ calls[i].args = calls[j].args
        /\ calls[i].ret # calls[j].ret

\* The stage each function documents for the blocks it makes.
FragmentFns == {"outputFragColor", "perturbNormal", "pbrMetallicRoughnessMaterial"}
VertexFns == {"vertexAttribute", "outputVertexPosition"}
VertexAndFragmentFns ==
    {"uniformCameraPosition", "uniformView", "uniformViewProjection",
     "uniformWorld", "float", "constFloat", "uniformFloat", "sampleTexture"}
StageArgFns ==
    {"transformPosition", "transformDirection", "fract", "mul", "mulVec",
     "merge", "vec2", "vec3", "vec4", "splitVec2", "splitVec3", "xy", "xz"}

Scenario(i, j, k) ==
    /\ i < j /\ j < k
    /\ calls[i].fn = "vertexAttribute" /\ calls[i].args.name = "uv"
    /\ calls[j].fn = "sampleTexture"
    /\ calls[j].args.uv = calls[i].ret
    /\ calls[j].args.props = Omitted
    /\ calls[k].fn = "outputFragColor"
    /\ calls[k].args.colorRgb = Sock(calls[j].ret.node, "rgb")
    /\ calls[k].args.props = Omitted

\* The wires that start and end in the set of blocks sub.
WiresWithin(sub) == { w \in wires : w.from.node \in sub /\ w.to.node \in sub }

\* What the scenario yields whatever the stages: sampler and sink are two
\* blocks joined by the one wire from the sampler's rgb output to the sink's
\* rgb input, with no colour-space conversion on either.
ScenarioWiring(sampler, sink) ==
    /\ sampler # sink
    /\ nodes[sampler].kind = "TextureBlock"
    /\ nodes[sink].kind = "FragmentOutputBlock"
    /\ WiresWithin({sampler, sink}) =
         {Wire(Sock(sampler, "rgb"), Sock(sink, "rgb"))}
    /\ In(sink, "rgb") = {Sock(sampler, "rgb")}
    /\ ~nodes[sampler].props.convertToLinearSpace
    /\ ~nodes[sampler].props.convertToGammaSpace
    /\ ~nodes[sink].props.convertToLinearSpace
    /\ ~nodes[sink].props.convertToGammaSpace

C7_RoundTripVec3SplitVec3 ==
    Len(calls) = 5 =>
      LET s == calls[5].ret.node
      IN  /\ nodes[s].kind = "VectorSplitterBlock"
          /\ Eval(Sock(s, "x")) = calls[1].args.value
          /\ Eval(Sock(s, "y")) = calls[2].args.value
          /\ Eval(Sock(s, "z")) = calls[3].args.value

\* The round trip of the spec has been run: vec3(float(1), float(2), float(3))
\* split again, the three outputs carrying 1, 2 and 3.
C7_Witness ==
    /\ Len(calls) = 5
    /\ calls[4].fn = "vec3" /\ calls[5].fn = "splitVec3"
    /\ <<calls[1].args.value, calls[2].args.value, calls[3].args.value>>
         = <<1, 2, 3>>
    /\ Eval(calls[4].ret) = <<1, 2, 3>>
    /\ Eval(Sock(calls[5].ret.node, "z")) = 3

\* The three quality toggles of the PBR block.
PbrToggles ==
    {"useEnergyConservation", "useRadianceOcclusion", "useHorizonOcclusion"}

\* C8: pbrMetallicRoughnessMaterial allocates one block with its three quality
\* toggles true, wires each of its eight required arguments to the input of
\* the same meaning, wires ambientOcc exactly when the ambient-occlusion
\* argument is not null (the other eight wires being the same either way), and
\* returns the block's lighting output.
C8_PbrWiresEachInput ==
    \A i \in DOMAIN calls :
        calls[i].fn = "pbrMetallicRoughnessMaterial" =>
          LET a == calls[i].args
              n == calls[i].ret.node
          IN  /\ calls[i].alloc = {n}
              /\ nodes[n].kind = "PBRMetallicRoughnessBlock"
              /\ \A t \in PbrToggles : nodes[n].props[t] = TRUE
              /\ In(n, "baseColor") = {a.albedoRgb}
              /\ In(n, "metallic") = {a.metallicFloat}
              /\ In(n, "roughness") = {a.roughnessFloat}
              /\ In(n, "perturbedNormal") = {a.perturbedNormalVec3}
              /\ In(n, "worldNormal") = {a.normalWorldVec3}
              /\ In(n, "view") = {a.viewMat4}
              /\ In(n, "cameraPosition") = {a.cameraPositionVec3}
              /\ In(n, "worldPosition") = {a.positionWorldVec3}
              /\ In(n, "ambientOcc") = IfGiven(a.ambientOcclusionFloat)
              /\ WiredInputs(n) \subseteq
                   {"baseColor", "metallic", "roughness", "perturbedNormal",
                    "worldNormal", "view", "cameraPosition", "worldPosition",
                    "ambientOcc"}
              /\ calls[i].ret = Sock(n, "lighting")

\* The material has been built without ambient occlusion, with a roughness
\* socket that differs from the other arguments: eight inputs are wired.
C8_Witness ==
    \E i \in DOMAIN calls :
        /\ calls[i].fn = "pbrMetallicRoughnessMaterial"
        /\ calls[i].args.ambientOcclusionFloat = Null
        /\ calls[i].args.roughnessFloat # calls[i].args.metallicFloat
        /\ Cardinality(WiredInputs(calls[i].ret.node)) = 8
        /\ "ambientOcc" \notin WiredInputs(calls[i].ret.node)

\* C9: transformPosition makes a transform block with complementW 1 and
\* transformDirection one with complementW 0, both with complementZ 0; the
\* matrix argument is wired to the transform input and the vector argument to
\* the vector input, and the block's output socket is returned.
C9_TransformComplements ==
    \A i \in DOMAIN calls :
        calls[i].fn \in {"transformPosition", "transformDirection"} =>
          LET n == calls[i].ret.node
          IN  /\ calls[i].alloc = {n}
              /\ nodes[n].kind = "TransformBlock"
              /\ nodes[n].props.complementW =
                   (IF calls[i].fn = "transformPosition" THEN 1 ELSE 0)
              /\ nodes[n].props.complementZ = 0
              /\ In(n, "transform") = {calls[i].args.transformMat4}
              /\ In(n, "vector") = {calls[i].args.vector}
              /\ WiredInputs(n) = {"transform", "vector"}
              /\ calls[i].ret = Sock(n, "output")

\* A direction has been transformed, matrix and vector being different
\* sockets: the block has complementW 0.
C9_Witness ==
    \E i \in DOMAIN calls :
        /\ calls[i].fn = "transformDirection"
        /\ calls[i].args.transformMat4 # calls[i].args.vector
        /\ nodes[calls[i].ret.node].props.complementW = 0
        /\ In(calls[i].ret.node, "transform") = {calls[i].args.transformMat4}

\* Call i allocated one splitter fed by its argument and one merger fed only by
\* outputs of that splitter, and returned an output of the merger.
SplitsThenMerges(i) ==
    \E s \in calls[i].alloc, m \in calls[i].alloc :
        /\ s # m
        /\ calls[i].alloc = {s, m}
        /\ nodes[s].kind = "VectorSplitterBlock"
        /\ nodes[m].kind = "VectorMergerBlock"
        /\ In(s, "xyzIn") = {calls[i].args.input}
        /\ WiredInputs(m) # {}
        /\ \A w \in wires : w.to.node = m => w.from.node = s
        /\ calls[i].ret.node = m

\* C10 as stated: every call of xy and every call of xz allocates a splitter
\* fed by v and a fresh merger fed by the selected splitter components, and
\* returns an output of that merger.
C10_Original ==
    \A i \in DOMAIN calls : calls[i].fn \in {"xy", "xz"} => SplitsThenMerges(i)

\* C10 amended: every call of xz allocates a splitter fed by v and a fresh
\* merger fed by the selected splitter components and returns an output of
\* that merger; every call of xy allocates one splitter fed by v and no merger,
\* and returns that splitter's own xy output.
C10_XzRemergesXySplitsOnly ==
    \A i \in DOMAIN calls :
        /\ calls[i].fn = "xz" => SplitsThenMerges(i)
        /\ calls[i].fn = "xy" =>
             LET s == calls[i].ret.node
             IN  /\ calls[i].alloc = {s}
                 /\ nodes[s].kind = "VectorSplitterBlock"
                 /\ In(s, "xyzIn") = {calls[i].args.input}
                 /\ WiredInputs(s) = {"xyzIn"}
                 /\ calls[i].ret = Sock(s, "xyOut")

\* xy has been called: one block more, a splitter, and no merger in the graph.
C10_Witness ==
    \E i \in DOMAIN calls :
        /\ calls[i].fn = "xy"
        /\ Cardinality(calls[i].alloc) = 1
        /\ \A n \in DOMAIN nodes : nodes[n].kind # "VectorMergerBlock"
        /\ In(calls[i].ret.node, "xyzIn") # {}

\* The wires that end at block n.
Incoming(ws, n) == { w \in ws : w.to.node = n }

\* C12: in every call, each new wire ends at an input of a block allocated in
\* that call and no input is wired twice, so that every input socket has at
\* most one incoming wire; and the call leaves every block that existed before
\* it as it was, with the same incoming wires (such a block only gains wires
\* going out of it, from sockets the callers held).
C12_CallsWireOnlyTheirOwnInputs ==
    [][ LET fresh == (DOMAIN nodes') \ (DOMAIN nodes)
            made == wires' \ wires
        IN  /\ \A w \in made : w.to.node \in fresh
            /\ \A w \in made : w.from.node \in fresh \/ w.from \in Avail
            /\ \A v \in made, w \in made : v.to = w.to => v = w
            /\ \A v \in wires', w \in wires' : v.to = w.to => v = w
            /\ wires \subseteq wires'
            /\ \A n \in DOMAIN nodes :
                 /\ nodes'[n] = nodes[n]
                 /\ Incoming(wires', n) = Incoming(wires, n)
      ]_vars

\* perturbNormal has been called with a world position and a world normal
\* that differ: its block has five inputs with one wire each, and the blocks
\* that were there before have no more incoming wires than before.
C12_Witness ==
    \E i \in DOMAIN calls :
        /\ calls[i].fn = "perturbNormal"
        /\ calls[i].args.positionWorldVec3 # calls[i].args.normalWorldVec3
        /\ Cardinality(Incoming(wires, calls[i].ret.node)) = 5
        /\ Cardinality(WiredInputs(calls[i].ret.node)) = 5
        /\ \E w \in wires : w.from.node # calls[i].args.uv.node
        /\ \A n \in DOMAIN nodes :
             n # calls[i].ret.node => Incoming(wires, n) = {}

\* The call that allocated block n.
AllocatedBy(n) == CHOOSE i \in DOMAIN calls : n \in calls[i].alloc

\* The blocks reached from block n along one or more wires.
RECURSIVE ReachedIn(_, _)
ReachedIn(n, steps) ==
    LET next == { w.to.node : w \in { v \in wires : v.from.node = n } }
    IN  IF steps = 0 THEN {}
        ELSE next \cup UNION { ReachedIn(m, steps - 1) : m \in next }

Reached(n) == ReachedIn(n, Len(nodes))

\* C13: starting from the empty graph and passing only sockets that earlier
\* calls returned, the wiring has no cycle: every wire goes from a block
\* allocated by an earlier call to a block allocated by a later one or, inside
\* xz, from the call's splitter to its merger, so from a block allocated
\* earlier to one allocated later.
C13_WiringIsAcyclic ==
    /\ \A w \in wires :
         /\ w.from.node \in DOMAIN nodes /\ w.to.node \in DOMAIN nodes
         /\ w.from.node < w.to.node
         /\ \/ AllocatedBy(w.from.node) < AllocatedBy(w.to.node)
            \/ /\ AllocatedBy(w.from.node) = AllocatedBy(w.to.node)
               /\ calls[AllocatedBy(w.to.node)].fn = "xz"
               /\ nodes[w.from.node].kind = "VectorSplitterBlock"
               /\ nodes[w.to.node].kind = "VectorMergerBlock"
    /\ \A n \in DOMAIN nodes : n \notin Reached(n)

\* xz has been called on an earlier block's output: a path of two wires leads
\* from that block through the splitter to the merger, and none leads back.
C13_Witness ==
    \E i \in DOMAIN calls :
        /\ calls[i].fn = "xz"
        /\ calls[i].ret.node \in Reached(calls[i].args.input.node)
        /\ Cardinality(Reached(calls[i].args.input.node)) = 2
        /\ Reached(calls[i].ret.node) = {}

\* The fields of a call's arguments that are not sockets.
NonSocketFields ==
    {"none", "name", "value", "vec", "texture", "props", "stage"}

\* The sockets passed to a call.
SocketArgs(c) ==
    { c.args[f] : f \in (DOMAIN c.args) \ NonSocketFields } \ {Null}

\* Call i was passed a socket that makes the graph malformed: a non-matrix
\* where a matrix is meant, or a fragment-stage output for a vertex-stage block.
PassedMalformed(i) ==
    \E w \in wires :
        /\ w.to.node \in calls[i].alloc
        /\ w.from \in SocketArgs(calls[i])
        /\ TypeMismatched(w) \/ StageIncompatible(w)

\* C11: the facade passes failures through. Whatever sockets a function is
\* given, type-mismatched and stage-incompatible ones included, the call
\* completes: it allocates its blocks, wires every socket it was given and
\* returns a block of its own or a socket of one. No call reports a failure;
\* a failure is reported only by a later build of the host, and only on a
\* malformed graph.
C11_FacadePassesThrough ==
    /\ [](\A i \in DOMAIN calls :
            /\ calls[i].alloc # {}
            /\ calls[i].ret # Null
            /\ calls[i].ret.node \in calls[i].alloc
            /\ \A a \in SocketArgs(calls[i]) :
                 \E w \in wires : w.from = a /\ w.to.node \in calls[i].alloc)
    /\ [][calls' # calls => hostError' = hostError]_vars
    /\ [][hostError' # hostError =>
            calls' = calls /\ wires' = wires /\ GraphMalformed]_vars

\* A float has been passed as the matrix of a transform: the call returned the
\* transform's output with the float wired to the matrix input, and the
\* failure was reported by the build that followed.
C11_Witness ==
    /\ hostError = "build"
    /\ \E i \in DOMAIN calls :
         /\ calls[i].fn \in {"transformPosition", "transformDirection"}
         /\ PassedMalformed(i)
         /\ nodes[calls[i].args.transformMat4.node].name = "float"
         /\ calls[i].ret = Sock(calls[i].ret.node, "output")
         /\ In(calls[i].ret.node, "transform") = {calls[i].args.transformMat4}

====
